---- MODULE Spec2Model ----
(***************************************************************************)
(* Model of FilesTreeView (src/windows/views/files_treeview.py): the file  *)
(* import pipeline (add_file, dropEvent) and the name/tags edit handler    *)
(* (value_updated), over the project's list of File records.               *)
(*                                                                         *)
(* Strings the code indexes or matches by suffix (paths) are tuples of     *)
(* one-character strings, so that filepath[0], filepath[1:], lower() and   *)
(* endswith() are computed and not assumed.                                *)
(***************************************************************************)
EXTENDS Integers, Sequences, FiniteSets, TLC

VARIABLES
    files,                  \* the project's File records (File.get / File.save)
    ignore_update_signal,   \* self.files_model.ignore_update_signal
    media,                  \* what libopenshot makes of each regular file on disk
    last                    \* the last handler call: its input, return and outcome

vars == <<files, ignore_update_signal, media, last>>

\* Longest list of URLs one drop carries in the model.
MaxBatch == 2

\* Python's None where the code tests an object for truth: the empty tuple; an
\* object that is there is the one-element tuple holding it.
None == << >>

Range(s) == {s[i] : i \in DOMAIN s}

----------------------------------------------------------------------------
(* Paths and URLs of the model's filesystem.                               *)

PathMovie    == <<"/", "m">>
PathDriveUrl == <<"/", "C", ":", "/", "i", ".", "P", "N", "G">>
PathDrive    == <<"C", ":", "/", "i", ".", "P", "N", "G">>
PathMissing  == <<"/", "x">>
PathDir      == <<"/">>
PathEmpty    == << >>

\* The paths that exist as regular files.
RegularFiles == {PathMovie, PathDrive}

\* os.path.exists(filepath) and os.path.isfile(filepath)
PathExists(filepath) == filepath \in RegularFiles \cup {PathDir}
PathIsFile(filepath) == filepath \in RegularFiles

\* urlparse(uri.toString()): the scheme and the path of each dropped URL: the
\* two regular files (one under a drive letter), a path that does not exist, a
\* file URL with an empty path, and a URL of another scheme.
Urls ==
    { [scheme |-> "file", path |-> PathMovie],
      [scheme |-> "file", path |-> PathDriveUrl],
      [scheme |-> "file", path |-> PathMissing],
      [scheme |-> "file", path |-> PathEmpty],
      [scheme |-> "http", path |-> PathMovie] }

\* The paths add_file is called with: the regular files, a path that does not
\* exist and a directory.
FilePaths == {PathMovie, PathDrive, PathMissing, PathDir}

UrlLists == UNION {[1..n -> Urls] : n \in 0..MaxBatch}

\* What opening a regular file in libopenshot and saving its record comes to:
\* no reader opens it; a reader opens it and reports has_video / has_audio;
\* or a reader opens it and File.save raises (the flags then decide nothing).
MediaOutcomes ==
    { [opens |-> FALSE, has_video |-> FALSE, has_audio |-> FALSE, saves |-> TRUE] }
    \cup { [opens |-> TRUE, has_video |-> v, has_audio |-> a, saves |-> TRUE] :
             v \in BOOLEAN, a \in BOOLEAN }
    \cup { [opens |-> TRUE, has_video |-> TRUE, has_audio |-> FALSE, saves |-> FALSE] }

----------------------------------------------------------------------------
(* str.lower() and str.endswith(), is_image                                *)

Lower(c) ==
    CASE c = "P" -> "p"
      [] c = "N" -> "n"
      [] c = "G" -> "g"
      [] c = "C" -> "c"
      [] OTHER -> c

LowerStr(s) == [i \in DOMAIN s |-> Lower(s[i])]

EndsWith(s, suffix) ==
    /\ Len(s) >= Len(suffix)
    /\ SubSeq(s, Len(s) - Len(suffix) + 1, Len(s)) = suffix

ImageSuffixes ==
    { <<".", "j", "p", "g">>, <<".", "j", "p", "e", "g">>, <<".", "p", "n", "g">>,
      <<".", "b", "m", "p">>, <<".", "s", "v", "g">>, <<".", "t", "h", "m">>,
      <<".", "g", "i", "f">>, <<".", "p", "g", "m">>, <<".", "t", "i", "f">>,
      <<".", "t", "i", "f", "f">> }

is_image(file) ==
    LET path == LowerStr(file.path)
    IN  \E suffix \in ImageSuffixes : EndsWith(path, suffix)

----------------------------------------------------------------------------
(* classes.query.File: the project's records                               *)

\* File.get(key=value): the first record with that value, or None.
FileGet(fs, key, value) ==
    LET hits == {i \in 1..Len(fs) : fs[i][key] = value}
    IN  IF hits = {} THEN None
        ELSE << fs[CHOOSE i \in hits : \A j \in hits : i <= j] >>

\* File().save() of new data: the record is appended under a fresh id.
FileSaveNew(fs, data) == Append(fs, [id |-> Len(fs) + 1] @@ data)

\* f.save() of an existing File: its record is replaced.
FileSaveExisting(fs, id, data) ==
    [i \in 1..Len(fs) |-> IF fs[i].id = id THEN data ELSE fs[i]]

----------------------------------------------------------------------------
(* add_file                                                                *)

\* clip.Reader() and json.loads(reader.Json()): the reader's data, or None when
\* no reader could open the path (clip.Reader() raises).
ReaderJson(m, filepath) ==
    IF filepath \in RegularFiles /\ m[filepath].opens
    THEN << [path |-> filepath,
             has_video |-> m[filepath].has_video,
             has_audio |-> m[filepath].has_audio] >>
    ELSE None

SaveRaises(m, filepath) == filepath \in RegularFiles /\ ~m[filepath].saves

\* Lines 146-152: the if/elif chain that sets file_data["media_type"], or leaves
\* the key out when no branch is taken.
DetermineMediaTypeAudioFirst(file_data) ==
    IF file_data.has_audio
    THEN [media_type |-> "audio"] @@ file_data
    ELSE IF file_data.has_video /\ is_image(file_data)
    THEN [media_type |-> "image"] @@ file_data
    ELSE IF file_data.has_video
    THEN [media_type |-> "video"] @@ file_data
    ELSE file_data

DetermineMediaType(file_data) ==
    IF file_data.has_video /\ ~is_image(file_data)
    THEN [media_type |-> "video"] @@ file_data
    ELSE IF file_data.has_video /\ is_image(file_data)
    THEN [media_type |-> "image"] @@ file_data
    ELSE IF file_data.has_audio /\ ~file_data.has_video
    THEN [media_type |-> "audio"] @@ file_data
    ELSE file_data

\* Lines 131-136: "if file: return".
AlreadyInProjectNever(fs, filepath) == FALSE

AlreadyInProject(fs, filepath) == FileGet(fs, "path", filepath) # None

\* Lines 160-165: the except branch: a message box, return False.
HandleExceptionReturnsTrue(fs) == [files |-> fs, ret |-> "True"]

HandleException(fs) == [files |-> fs, ret |-> "False"]

\* add_file(filepath) on project records fs: the records after it and what it
\* returns ("None", "True" or "False").
add_file(fs, m, filepath) ==
    IF AlreadyInProject(fs, filepath)
    THEN [files |-> fs, ret |-> "None"]
    ELSE LET reader == ReaderJson(m, filepath)
         IN  IF reader = None
             THEN HandleException(fs)
             ELSE LET file_data == DetermineMediaType(reader[1])
                  IN  IF SaveRaises(m, filepath)
                      THEN HandleException(fs)
                      ELSE [files |-> FileSaveNew(fs, file_data), ret |-> "True"]

----------------------------------------------------------------------------
(* dropEvent                                                               *)

\* Lines 174-175: the leading "/" of a path with a drive colon is dropped.
StripDriveSlash(filepath) ==
    IF filepath[1] = "/" /\ ":" \in Range(filepath)
    THEN Tail(filepath)
    ELSE filepath

\* Line 178: "if self.add_file(filepath):" takes only True for true.
AcceptsUnlessFalse(ret) == ret # "False"

Accepts(ret) == ret = "True"

\* One pass of the for loop over uri, from the loop's state st: the records,
\* whether event.accept() was called, what became of each URL so far, and
\* whether an exception has left the handler.
dropItem(st, m, uri) ==
    IF uri.scheme = "file"
    THEN IF Len(uri.path) = 0
         THEN \* filepath[0] of the empty string: IndexError
              [st EXCEPT !.raised = TRUE]
         ELSE LET filepath == StripDriveSlash(uri.path)
              IN  IF PathExists(filepath) /\ PathIsFile(filepath)
                  THEN LET r == add_file(st.files, m, filepath)
                       IN  [files    |-> r.files,
                            accepted |-> st.accepted \/ Accepts(r.ret),
                            results  |-> Append(st.results, r.ret),
                            raised   |-> FALSE]
                  ELSE [st EXCEPT !.results = Append(@, "skipped")]
    ELSE [st EXCEPT !.results = Append(@, "skipped")]

RECURSIVE dropLoop(_, _, _, _)
dropLoop(st, m, uris, i) ==
    IF i > Len(uris) \/ st.raised
    THEN st
    ELSE dropLoop(dropItem(st, m, uris[i]), m, uris, i + 1)

\* dropEvent(event) with event.mimeData().urls() = uris; the event arrives not
\* accepted.
dropEvent(fs, m, uris) ==
    dropLoop([files |-> fs, accepted |-> FALSE, results |-> << >>, raised |-> FALSE],
             m, uris, 1)

----------------------------------------------------------------------------
(* value_updated                                                           *)

\* The texts an edited row can hold in its name column (besides the file's
\* path) and in its tags column.
NameTexts == {<<"n">>}
TagsTexts == {<< >>, <<"t">>}

\* Lines 215-224: the File's data with the name and the tags of the row.
UpdatedData(data, name, tags) ==
    LET named == IF name # data.path
                 THEN [name |-> name] @@ [k \in DOMAIN data \ {"name"} |-> data[k]]
                 ELSE [name |-> << >>] @@ [k \in DOMAIN data \ {"name"} |-> data[k]]
    IN  IF "tags" \in DOMAIN named
        THEN IF tags # named.tags
             THEN [named EXCEPT !.tags = tags]
             ELSE named
        ELSE IF tags # << >>
             THEN [tags |-> tags] @@ named
             ELSE named

----------------------------------------------------------------------------
(* The state machine                                                       *)

Init ==
    /\ files = << >>
    /\ ignore_update_signal = FALSE
    /\ media \in [RegularFiles -> MediaOutcomes]
    /\ last = [op |-> "init", raised |-> FALSE]

AddFile ==
    \E filepath \in FilePaths :
        \E r \in {add_file(files, media, filepath)} :
            /\ files' = r.files
            /\ last' = [op |-> "add_file", filepath |-> filepath,
                        ret |-> r.ret, raised |-> FALSE]
            /\ UNCHANGED <<ignore_update_signal, media>>

DropEvent ==
    \E uris \in UrlLists :
        \E st \in {dropEvent(files, media, uris)} :
            /\ files' = st.files
            /\ last' = [op |-> "dropEvent", uris |-> uris, results |-> st.results,
                        accepted |-> st.accepted, raised |-> st.raised]
            /\ UNCHANGED <<ignore_update_signal, media>>

ValueUpdated ==
    \E row \in 1..Len(files), tags \in TagsTexts, saved \in BOOLEAN :
        \E name \in NameTexts \cup {files[row].path} :
            LET f == FileGet(files, "id", files[row].id)[1]
                data == UpdatedData(f, name, tags)
            IN  /\ files' = IF saved THEN FileSaveExisting(files, f.id, data) ELSE files
                /\ ignore_update_signal' = IF saved THEN FALSE ELSE TRUE
                /\ last' = [op |-> "value_updated", raised |-> ~saved]
                /\ UNCHANGED media

Next == AddFile \/ DropEvent

Spec == Init /\ [][Next]_vars

NextEdit == AddFile \/ ValueUpdated

SpecEdit == Init /\ [][NextEdit]_vars

----------------------------------------------------------------------------
(* Properties                                                              *)

HasPath(fs, filepath) == \E i \in 1..Len(fs) : fs[i].path = filepath

MediaTypes == {"video", "audio", "image"}

\* A dropped URL that names an existing regular file: its filepath is handed
\* to add_file.
IsFileUrl(uri) ==
    /\ uri.scheme = "file"
    /\ Len(uri.path) > 0
    /\ StripDriveSlash(uri.path) \in RegularFiles

\* A dropped URL whose file a reader opens and whose record can be saved.
IsValidUrl(uri) ==
    /\ IsFileUrl(uri)
    /\ media[StripDriveSlash(uri.path)].opens
    /\ media[StripDriveSlash(uri.path)].saves

UrlMovie   == [scheme |-> "file", path |-> PathMovie]
UrlDrive   == [scheme |-> "file", path |-> PathDriveUrl]
UrlMissing == [scheme |-> "file", path |-> PathMissing]

\* C1: no two records of the project have the same path, after any sequence
\* of add_file and dropEvent calls.
C1_UniquePaths ==
    \A i, j \in 1..Len(files) : files[i].path = files[j].path => i = j

\* C1 witness: two records are in the project and the last drop met a path that
\* the lookup found, so that it was not inserted again.
C1_Witness ==
    /\ last.op = "dropEvent"
    /\ Len(files) = 2
    /\ \E i \in 1..Len(last.results) : last.results[i] = "None"

\* C2 (as claimed): every record of the project has a media type, one of video,
\* audio and image; a file that is neither video nor audio leaves no record.
C2_EveryRecordHasMediaType ==
    \A i \in 1..Len(files) :
        /\ "media_type" \in DOMAIN files[i]
        /\ files[i].media_type \in MediaTypes

\* C3 (as claimed): no exception leaves add_file or dropEvent.
C3_NoExceptionEscapes ==
    last.op \in {"add_file", "dropEvent"} => ~last.raised

\* C4 (as claimed): after a drop every position of the batch was processed and
\* every valid URL of the batch has its record in the project, whatever came
\* before it in the batch.
C4_BatchNeverAborts ==
    last.op = "dropEvent" =>
        /\ Len(last.results) = Len(last.uris)
        /\ \A i \in 1..Len(last.uris) :
               IsValidUrl(last.uris[i]) =>
                   HasPath(files, StripDriveSlash(last.uris[i].path))

\* The drop recorded in l ended normally and each of its URLs was imported or
\* was in the project already.
AllImported(l) ==
    /\ ~l.raised
    /\ Len(l.results) = Len(l.uris)
    /\ \A i \in 1..Len(l.results) : l.results[i] \in {"True", "None"}

\* C5: add_file of a path that has a record returns None (AlreadyExists) and
\* leaves the records as they were; and a drop of the URL list that the drop
\* before it imported in full returns None for every URL and leaves the
\* records as they were.
C5_Idempotent ==
    [][ /\ (last'.op = "add_file" /\ HasPath(files, last'.filepath)) =>
               (last'.ret = "None" /\ files' = files)
        /\ (/\ last.op = "dropEvent"
            /\ AllImported(last)
            /\ last'.op = "dropEvent"
            /\ last'.uris = last.uris) =>
               /\ ~last'.raised
               /\ Len(last'.results) = Len(last'.uris)
               /\ \A i \in 1..Len(last'.results) : last'.results[i] = "None"
               /\ files' = files ]_vars

\* C5 witness: a drop of two valid file URLs found both in the project.
C5_Witness ==
    /\ last.op = "dropEvent"
    /\ last.uris = <<UrlMovie, UrlDrive>>
    /\ last.results = <<"None", "None">>
    /\ Len(files) = 2

\* C6: add_file of a path that has no record and that no reader opens returns
\* False (Rejected) and leaves the records as they were.
C6_ProbeFailureRejected ==
    [][ (/\ last'.op = "add_file"
         /\ ~HasPath(files, last'.filepath)
         /\ (last'.filepath \notin RegularFiles \/ ~media[last'.filepath].opens)) =>
            (last'.ret = "False" /\ files' = files) ]_vars

\* C6 witness: add_file of a regular file that no reader opens returned False
\* while the project holds the other file's record only.
C6_Witness ==
    /\ last.op = "add_file"
    /\ last.filepath = PathMovie
    /\ ~media[PathMovie].opens
    /\ last.ret = "False"
    /\ Len(files) = 1
    /\ ~HasPath(files, PathMovie)

\* C7 (as claimed): a drop yields one result per URL, in the order of the URLs
\* (the result at a position is "skipped" exactly when the URL at that position
\* names no existing regular file); and for [p1, p2], p1 a valid video without
\* a record and p2 not existing, the results are [True, skipped] and the
\* project gains one record.
C7_OneResultPerUrlInOrder ==
    [][ last'.op = "dropEvent" =>
            /\ Len(last'.results) = Len(last'.uris)
            /\ \A i \in 1..Len(last'.uris) :
                   (last'.results[i] = "skipped") <=> ~IsFileUrl(last'.uris[i])
            /\ (/\ last'.uris = <<UrlMovie, UrlMissing>>
                /\ IsValidUrl(UrlMovie)
                /\ media[PathMovie].has_video
                /\ ~HasPath(files, PathMovie)) =>
                   /\ last'.results = <<"True", "skipped">>
                   /\ Len(files') = Len(files) + 1 ]_vars

\* C8: the media type of every record is the one the reader's flags and the
\* path's extension call for: video for video without an image extension,
\* image for video with one, audio for audio without video, none otherwise.
C8_MediaTypeMatchesClassify ==
    \A i \in 1..Len(files) :
        LET f   == files[i]
            img == is_image(f)
        IN  /\ (f.has_video /\ ~img) =>
                   ("media_type" \in DOMAIN f /\ f.media_type = "video")
            /\ (f.has_video /\ img) =>
                   ("media_type" \in DOMAIN f /\ f.media_type = "image")
            /\ (~f.has_video /\ f.has_audio) =>
                   ("media_type" \in DOMAIN f /\ f.media_type = "audio")
            /\ (~f.has_video /\ ~f.has_audio) => "media_type" \notin DOMAIN f

\* C8 witness: the project holds an image record whose reader reported video
\* and audio, and an audio record.
C8_Witness ==
    /\ \E i \in 1..Len(files) :
           /\ files[i].path = PathDrive
           /\ files[i].has_video /\ files[i].has_audio
           /\ "media_type" \in DOMAIN files[i] /\ files[i].media_type = "image"
    /\ \E i \in 1..Len(files) :
           /\ files[i].path = PathMovie
           /\ ~files[i].has_video /\ files[i].has_audio
           /\ "media_type" \in DOMAIN files[i] /\ files[i].media_type = "audio"

\* C9: a drop accepts its event exactly when it saved at least one new record.
C9_AcceptedIffSaved ==
    [][ last'.op = "dropEvent" =>
            (last'.accepted <=> Len(files') > Len(files)) ]_vars

\* C9 witness: a drop that saved one record and met one path already in the
\* project was accepted.
C9_Witness ==
    /\ last.op = "dropEvent"
    /\ last.accepted
    /\ \E i \in 1..Len(last.results) : last.results[i] = "True"
    /\ \E i \in 1..Len(last.results) : last.results[i] = "None"

\* C10 (as claimed): between handler calls ignore_update_signal is False,
\* whether the save in value_updated succeeded or failed.
C10_FlagClearedAfterValueUpdated ==
    ignore_update_signal = FALSE

====
